---- MODULE Spec2Model ----
(***************************************************************************)
(* Model of the benchmark runner bench_pt_op/__main__.py (main) and of the *)
(* attention mask layout of epoi/ops/xformers_attn.py.                     *)
(*                                                                         *)
(* The runner is one sequential process.  Its state is the locals of       *)
(* main(), a program counter, and the observable event trace: every line   *)
(* main() prints and every invocation / completion of a runnable.          *)
(***************************************************************************)
EXTENDS Integers, Sequences, FiniteSets, TLC

VARIABLES
    ops,          \* the sequence get_op_list() returns: (name, func) pairs
    only_run,     \* args.only_run: None or a string
    it,           \* number of entries the selection loop has consumed
    funcs,        \* main(): funcs, the execution plan
    selected,     \* main(): selected
    total,        \* main(): total
    n_func,       \* main(): n_func
    idx,          \* main(): idx of the execution loop
    pc,           \* position of main()
    err,          \* the fault in flight, raised by the runnable
    trace,        \* observable events, oldest first
    exit_status,  \* exit status of the process, -1 while it runs
    mask,         \* layout_attention_mask: the mask argument
    num_heads,    \* layout_attention_mask: num_attention_heads
    result,       \* layout_attention_mask: the tensor returned
    lpc           \* position of layout_attention_mask

runnerVars == <<ops, only_run, it, funcs, selected, total, n_func, idx, pc,
                err, trace, exit_status>>
layoutVars == <<mask, num_heads, result, lpc>>
vars == <<ops, only_run, it, funcs, selected, total, n_func, idx, pc,
          err, trace, exit_status, mask, num_heads, result, lpc>>

----------------------------------------------------------------------------
(* Bounds of the model *)

MaxOps == 2        \* longest discovery sequence
MaxNameLen == 2    \* longest entry name / filter string
MaxBatch == 3      \* largest batch size B
MaxSeq == 3        \* largest sequence length S
MaxHeads == 2      \* largest head count H

Alphabet == {"a", "A"}

\* all strings (sequences of characters) of length lo..hi
Strings(lo, hi) == UNION {[1..n -> Alphabet] : n \in lo..hi}

Names == Strings(1, MaxNameLen)

\* Optional[str]: None, or a string
None == [isNone |-> TRUE, str |-> <<>>]
Some(s) == [isNone |-> FALSE, str |-> s]
Filters == {None} \cup {Some(s) : s \in Strings(0, MaxNameLen)}

\* The discovery sequences: entry i is (name, func); the runnable of entry i
\* is a distinct function object, identified by i.
OpLists ==
    UNION {{[i \in 1..n |-> [name |-> names[i], func |-> i]] :
              names \in [1..n -> Names]} : n \in 0..MaxOps}

----------------------------------------------------------------------------
(* Faults a runnable can raise: the Python exception hierarchy *)

RuntimeError == [type |-> "RuntimeError", code |-> 1]
KeyboardInterrupt == [type |-> "KeyboardInterrupt", code |-> 130]
SystemExit(c) == [type |-> "SystemExit", code |-> c]
NoFault == [type |-> "none", code |-> 0]

Faults == {RuntimeError, KeyboardInterrupt, SystemExit(0), SystemExit(2)}

\* the classes deriving from Exception; KeyboardInterrupt and SystemExit
\* derive from BaseException only
ExceptionTypes == {"RuntimeError"}

----------------------------------------------------------------------------
(* Pure helpers *)

\* Python's `sub in s` on strings: plain, case-sensitive substring test
StrIn(sub, s) ==
    \E i \in 0..(Len(s) - Len(sub)) : SubSeq(s, i + 1, i + Len(sub)) = sub

Lower(s) == [i \in 1..Len(s) |-> IF s[i] = "A" THEN "a" ELSE s[i]]

MatchesIgnoreCase(filter, name) ==
    filter.isNone \/ StrIn(Lower(filter.str), Lower(name))

MatchesReversed(filter, name) ==
    filter.isNone \/ StrIn(name, filter.str)

\* line 22: args.only_run is None or args.only_run in name
Matches(filter, name) ==
    filter.isNone \/ StrIn(filter.str, name)

CaughtNothing(fault) == FALSE

\* line 36: except Exception
Caught(fault) == fault.type \in ExceptionTypes

\* events of the trace
Ev(kind, name, a, b, fault) ==
    [kind |-> kind, name |-> name, a |-> a, b |-> b, fault |-> fault]

----------------------------------------------------------------------------
(* The runner: main() *)

LayoutIdle ==
    /\ mask = [shape |-> <<>>, data |-> <<>>]
    /\ num_heads = 1
    /\ result = [shape |-> <<>>, data |-> <<>>]
    /\ lpc = "off"

\* lines 17-20: the arguments are parsed, the registry is about to be read
Init ==
    /\ ops \in OpLists
    /\ only_run \in Filters
    /\ it = 0
    /\ funcs = <<>>
    /\ selected = 0
    /\ total = 0
    /\ n_func = 0
    /\ idx = 0
    /\ pc = "select"
    /\ err = NoFault
    /\ trace = <<>>
    /\ exit_status = -1
    /\ LayoutIdle

\* lines 21-25, 28: one iteration of the selection loop, the entry matches
SelectEntry ==
    /\ pc = "select"
    /\ it < Len(ops)
    /\ Matches(only_run, ops[it + 1].name)
    /\ trace' = Append(trace, Ev("Selected", ops[it + 1].name, 0, 0, NoFault))
    /\ funcs' = Append(funcs, ops[it + 1])
    /\ selected' = selected + 1
    /\ total' = total + 1
    /\ it' = it + 1
    /\ UNCHANGED <<ops, only_run, n_func, idx, pc, err, exit_status>>
    /\ UNCHANGED layoutVars

SkipEntryNoTotal ==
    /\ pc = "select"
    /\ it < Len(ops)
    /\ ~Matches(only_run, ops[it + 1].name)
    /\ trace' = Append(trace, Ev("Skipped", ops[it + 1].name, 0, 0, NoFault))
    /\ it' = it + 1
    /\ UNCHANGED <<ops, only_run, funcs, selected, total, n_func, idx, pc,
                   err, exit_status>>
    /\ UNCHANGED layoutVars

\* lines 21-22, 26-28: one iteration of the selection loop, no match
SkipEntry ==
    /\ pc = "select"
    /\ it < Len(ops)
    /\ ~Matches(only_run, ops[it + 1].name)
    /\ trace' = Append(trace, Ev("Skipped", ops[it + 1].name, 0, 0, NoFault))
    /\ total' = total + 1
    /\ it' = it + 1
    /\ UNCHANGED <<ops, only_run, funcs, selected, n_func, idx, pc, err,
                   exit_status>>
    /\ UNCHANGED layoutVars

\* lines 29-31: the selection loop is exhausted; summary line, n_func
PrintSummary ==
    /\ pc = "select"
    /\ it = Len(ops)
    /\ trace' = Append(trace, Ev("Summary", <<>>, selected, total, NoFault))
    /\ n_func' = Len(funcs)
    /\ idx' = 0
    /\ pc' = "loop"
    /\ UNCHANGED <<ops, only_run, it, funcs, selected, total, err,
                   exit_status>>
    /\ UNCHANGED layoutVars

CurrentReversed == funcs[Len(funcs) - idx]

\* line 32: the (name, func) pair enumerate(funcs) yields at index idx
Current == funcs[idx + 1]

BenchmarkZeroIndexed ==
    /\ pc = "loop"
    /\ idx < Len(funcs)
    /\ trace' = trace \o
          << Ev("Progress", Current.name, idx, n_func, NoFault),
             Ev("Invoke", Current.name, Current.func, 0, NoFault) >>
    /\ pc' = "call"
    /\ UNCHANGED <<ops, only_run, it, funcs, selected, total, n_func, idx,
                   err, exit_status>>
    /\ UNCHANGED layoutVars

\* lines 32-35: next planned entry; progress line, then the runnable is called
Benchmark ==
    /\ pc = "loop"
    /\ idx < Len(funcs)
    /\ trace' = trace \o
          << Ev("Progress", Current.name, idx + 1, n_func, NoFault),
             Ev("Invoke", Current.name, Current.func, 0,
                NoFault) >>
    /\ pc' = "call"
    /\ UNCHANGED <<ops, only_run, it, funcs, selected, total, n_func, idx,
                   err, exit_status>>
    /\ UNCHANGED layoutVars

\* line 35: the runnable returns normally; the loop moves on
FuncReturns ==
    /\ pc = "call"
    /\ trace' = Append(trace, Ev("Return", Current.name,
                                 Current.func, 0, NoFault))
    /\ idx' = idx + 1
    /\ pc' = "loop"
    /\ UNCHANGED <<ops, only_run, it, funcs, selected, total, n_func, err,
                   exit_status>>
    /\ UNCHANGED layoutVars

\* line 35: the runnable raises a fault
FuncRaises ==
    /\ pc = "call"
    /\ \E fault \in Faults :
          /\ err' = fault
          /\ trace' = Append(trace, Ev("Raise", Current.name,
                                       Current.func, 0, fault))
    /\ pc' = "raised"
    /\ UNCHANGED <<ops, only_run, it, funcs, selected, total, n_func, idx,
                   exit_status>>
    /\ UNCHANGED layoutVars

ExceptReraise ==
    /\ pc = "raised"
    /\ Caught(err)
    /\ trace' = trace \o
          << Ev("Traceback", Current.name, 0, 0, err),
             Ev("Failed", Current.name, 0, 0, err) >>
    /\ pc' = "aborted"
    /\ exit_status' = 1
    /\ UNCHANGED <<ops, only_run, it, funcs, selected, total, n_func, idx,
                   err>>
    /\ UNCHANGED layoutVars

ExceptShrinksPlan ==
    /\ pc = "raised"
    /\ Caught(err)
    /\ trace' = trace \o
          << Ev("Traceback", Current.name, 0, 0, err),
             Ev("Failed", Current.name, 0, 0, err) >>
    /\ err' = NoFault
    /\ n_func' = n_func - 1
    /\ idx' = idx + 1
    /\ pc' = "loop"
    /\ UNCHANGED <<ops, only_run, it, funcs, selected, total, exit_status>>
    /\ UNCHANGED layoutVars

\* lines 36-38: the except clause; trace, notice, the loop moves on
Except ==
    /\ pc = "raised"
    /\ Caught(err)
    /\ trace' = trace \o
          << Ev("Traceback", Current.name, 0, 0, err),
             Ev("Failed", Current.name, 0, 0, err) >>
    /\ err' = NoFault
    /\ idx' = idx + 1
    /\ pc' = "loop"
    /\ UNCHANGED <<ops, only_run, it, funcs, selected, total, n_func,
                   exit_status>>
    /\ UNCHANGED layoutVars

\* exit status of a process ended by an uncaught fault
UncaughtExit(fault) ==
    IF fault.type = "SystemExit" THEN fault.code
    ELSE IF fault.type = "KeyboardInterrupt" THEN 130
    ELSE 1

\* lines 36, 41-42: the fault matches no except clause and leaves main()
Propagate ==
    /\ pc = "raised"
    /\ ~Caught(err)
    /\ pc' = "aborted"
    /\ exit_status' = UncaughtExit(err)
    /\ UNCHANGED <<ops, only_run, it, funcs, selected, total, n_func, idx,
                   err, trace>>
    /\ UNCHANGED layoutVars

MainReturnFailCount ==
    /\ pc = "loop"
    /\ idx = Len(funcs)
    /\ pc' = "done"
    /\ exit_status' = Len(SelectSeq(trace, LAMBDA e : e.kind = "Failed"))
    /\ UNCHANGED <<ops, only_run, it, funcs, selected, total, n_func, idx,
                   err, trace>>
    /\ UNCHANGED layoutVars

\* lines 32, 41-42: the plan is exhausted; main() returns, the process ends
MainReturn ==
    /\ pc = "loop"
    /\ idx = Len(funcs)
    /\ pc' = "done"
    /\ exit_status' = 0
    /\ UNCHANGED <<ops, only_run, it, funcs, selected, total, n_func, idx,
                   err, trace>>
    /\ UNCHANGED layoutVars

Next ==
    \/ SelectEntry
    \/ SkipEntry
    \/ PrintSummary
    \/ Benchmark
    \/ FuncReturns
    \/ FuncRaises
    \/ Except
    \/ Propagate
    \/ MainReturn

Spec == Init /\ [][Next]_vars

\* the runner is sequential code: each step it can take, it takes, and the
\* runnable that was called returns or raises
FairSpec == Spec /\ WF_vars(Next)

----------------------------------------------------------------------------
(* Properties of the runner *)

Terminated == pc \in {"done", "aborted"}

\* s contains f as a contiguous block, stated without reference to StrIn
IsSubstring(f, s) ==
    \E pre, suf \in 0..Len(s) :
        /\ pre + Len(f) + suf = Len(s)
        /\ \A k \in 1..Len(f) : s[pre + k] = f[k]

\* the entry name passes the filter only_run
Wanted(name) == only_run.isNone \/ IsSubstring(only_run.str, name)

OfKind(kinds) == SelectSeq(trace, LAMBDA e : e.kind \in kinds)

\* the runnables invoked so far, oldest first
Invoked ==
    LET calls == OfKind({"Invoke"}) IN [i \in 1..Len(calls) |-> calls[i].a]

PlanFuncs == [i \in 1..Len(funcs) |-> funcs[i].func]

IsPrefix(s, t) == Len(s) <= Len(t) /\ SubSeq(t, 1, Len(s)) = s

\* every fault raised so far derives from Exception
OnlyExceptionsRaised ==
    \A i \in 1..Len(trace) :
        trace[i].kind = "Raise" => trace[i].fault.type \in ExceptionTypes

\* the event at position i has been dealt with by main()
Settled(i) == i < Len(trace) \/ pc # "raised"

(* C1: the plan is exactly the subsequence of the discovered entries whose  *)
(* name contains only_run as a case-sensitive plain substring (all of them  *)
(* when only_run is unset), in discovery order; with only_run unset the     *)
(* plan is the whole discovery sequence and selected = total.               *)
C1_FilterCorrect ==
    /\ funcs = SelectSeq(SubSeq(ops, 1, it), LAMBDA e : Wanted(e.name))
    /\ pc # "select" =>
          /\ it = Len(ops)
          /\ only_run.isNone =>
                (funcs = ops /\ selected = total /\ total = Len(ops))

C1_Witness ==
    /\ pc = "done"
    /\ only_run = Some(<<"A">>)
    /\ Len(ops) = 2
    /\ ops[1].name = <<"a", "a">>
    /\ ops[2].name = <<"a", "A">>
    /\ funcs = <<ops[2]>>

PlanOrderAndSequencing ==
    /\ \A i \in 1..Len(funcs) :
          /\ funcs[i] = ops[funcs[i].func]
          /\ i > 1 => funcs[i - 1].func < funcs[i].func
    /\ \A i \in 1..Len(Invoked) :
          /\ Wanted(ops[Invoked[i]].name)
          /\ \E j \in 1..Len(trace) :
                trace[j].kind = "Selected" /\ trace[j].name = ops[Invoked[i]].name
    /\ LET calls == OfKind({"Invoke", "Return", "Raise"})
       IN  \A i \in 1..Len(calls) :
              IF i % 2 = 1
              THEN calls[i].kind = "Invoke"
              ELSE /\ calls[i].kind \in {"Return", "Raise"}
                   /\ calls[i].a = calls[i - 1].a

ZeroMatch ==
    /\ ~only_run.isNone
    /\ \A i \in 1..Len(ops) : ~IsSubstring(only_run.str, ops[i].name)

(* C5: when only_run is a substring of no discovered name, the plan is      *)
(* empty, the summary reads 0 / number of discovered entries, no runnable   *)
(* is invoked and main() returns normally.                                  *)
C5_ZeroMatch ==
    ZeroMatch =>
        /\ funcs = <<>>
        /\ selected = 0
        /\ Invoked = <<>>
        /\ pc \notin {"call", "raised", "aborted"}
        /\ pc = "loop" => ENABLED MainReturn
        /\ pc \in {"loop", "done"} =>
              /\ total = Len(ops)
              /\ OfKind({"Summary"}) =
                    <<Ev("Summary", <<>>, 0, Len(ops), NoFault)>>
        /\ pc = "done" => exit_status = 0

C5_Witness ==
    /\ ZeroMatch
    /\ pc = "done"
    /\ Len(ops) = 2
    /\ ops[1].name = <<"a">>
    /\ only_run = Some(<<"a", "A">>)

C7_SummaryCounts ==
    LET lines == OfKind({"Selected", "Skipped"})
        summary == OfKind({"Summary"})
    IN  /\ Len(lines) = it
        /\ \A i \in 1..Len(lines) : lines[i].name = ops[i].name
        /\ selected = Len(OfKind({"Selected"}))
        /\ selected = Len(funcs)
        /\ total = Len(lines)
        /\ 0 <= selected /\ selected <= total
        /\ pc = "select" => summary = <<>>
        /\ pc # "select" =>
              /\ Len(lines) = Len(ops)
              /\ Len(summary) = 1
              /\ summary[1].a = Len(OfKind({"Selected"}))
              /\ summary[1].a = Len(funcs)
              /\ summary[1].b = Len(lines)
              /\ summary[1].b = Len(ops)
              /\ 0 <= summary[1].a /\ summary[1].a <= summary[1].b

C7_Witness ==
    /\ pc = "done"
    /\ Len(ops) = 2
    /\ OfKind({"Summary"}) = <<Ev("Summary", <<>>, 1, 2, NoFault)>>
    /\ OfKind({"Selected", "Skipped"})[1].kind = "Skipped"

\* the events of the execution loop, oldest first
Execution ==
    OfKind({"Progress", "Invoke", "Return", "Raise", "Traceback", "Failed"})

\* the events of entry i, by position: the entry's progress line comes right
\* before its invocation, a notice only after the trace of a raised fault
ProgressThenInvoke(ex) ==
    \A p \in 1..Len(ex) :
       LET i == Len(SelectSeq(SubSeq(ex, 1, p),
                              LAMBDA e : e.kind = "Progress"))
       IN  /\ i >= 1 /\ i <= Len(funcs)
           /\ ex[p].name = funcs[i].name
           /\ ex[p].kind = "Progress" =>
                 /\ ex[p].a = i
                 /\ ex[p].b = Len(funcs)
                 /\ p < Len(ex)
                 /\ ex[p + 1].kind = "Invoke"
                 /\ p > 1 => ex[p - 1].kind \in {"Return", "Failed"}
           /\ ex[p].kind = "Invoke" =>
                 /\ ex[p - 1].kind = "Progress"
                 /\ ex[p].a = funcs[i].func
           /\ ex[p].kind \in {"Return", "Raise"} =>
                 ex[p - 1].kind = "Invoke"
           /\ ex[p].kind = "Traceback" =>
                 /\ ex[p - 1].kind = "Raise"
                 /\ ex[p].fault = ex[p - 1].fault
                 /\ p < Len(ex)
                 /\ ex[p + 1].kind = "Failed"
           /\ ex[p].kind = "Failed" =>
                 /\ ex[p - 1].kind = "Traceback"
                 /\ ex[p].fault = ex[p - 1].fault

FirstInvoke ==
    IF \E p \in 1..Len(trace) : trace[p].kind = "Invoke"
    THEN CHOOSE p \in 1..Len(trace) :
            /\ trace[p].kind = "Invoke"
            /\ \A q \in 1..(p - 1) : trace[q].kind # "Invoke"
    ELSE 0

(* C9: every Selected / Skipped line and the summary line are emitted       *)
(* before the first runnable is invoked (all of them are there by then),    *)
(* and once the selection is over no step, whatever a runnable does,        *)
(* changes the plan, the counts or the plan size n of the progress lines.   *)
C9_SelectionFirst ==
    /\ [](FirstInvoke > 0 =>
            /\ \A q \in 1..Len(trace) :
                  trace[q].kind \in {"Selected", "Skipped", "Summary"}
                      => q < FirstInvoke
            /\ trace[Len(ops) + 1].kind = "Summary"
            /\ \A q \in 1..Len(ops) :
                  trace[q].kind \in {"Selected", "Skipped"})
    /\ [][pc # "select" =>
            /\ funcs' = funcs
            /\ n_func' = n_func
            /\ selected' = selected
            /\ total' = total
            /\ n_func = Len(funcs)
            /\ OfKind({"Selected", "Skipped", "Summary"})' =
                  OfKind({"Selected", "Skipped", "Summary"})]_vars
    /\ [](\A q \in 1..Len(trace) :
            trace[q].kind = "Progress" => trace[q].b = Len(funcs))

C9_Witness ==
    /\ pc = "call"
    /\ idx = 1
    /\ Len(ops) = 2
    /\ trace[6].kind = "Raise"
    /\ trace[6].fault = RuntimeError
    /\ trace[Len(trace) - 1] = Ev("Progress", funcs[2].name, 2, 2, NoFault)

----------------------------------------------------------------------------
(* Tensors: a shape and the elements in row-major order *)

RECURSIVE Prod(_)
Prod(shape) == IF shape = <<>> THEN 1 ELSE Head(shape) * Prod(Tail(shape))

Tensor(shape, data) == [shape |-> shape, data |-> data]

\* torch.Tensor.squeeze(): every dimension of size 1 is removed
Squeeze(t) == Tensor(SelectSeq(t.shape, LAMBDA d : d # 1), t.data)

\* torch.Tensor.reshape(shape): same elements, same order
Reshape(t, shape) == Tensor(shape, t.data)

\* torch.Tensor.repeat(r0, r1, r2) of a 3-d tensor: the tensor is tiled,
\* out[i, j, k] = t[i mod d0, j mod d1, k mod d2] (0-based)
Repeat(t, r0, r1, r2) ==
    LET d0 == t.shape[1]
        d1 == t.shape[2]
        d2 == t.shape[3]
        n1 == d1 * r1
        n2 == d2 * r2
    IN  Tensor(<<d0 * r0, n1, n2>>,
               [p \in 1..(d0 * r0 * n1 * n2) |->
                   LET i == (p - 1) \div (n1 * n2)
                       j == ((p - 1) \div n2) % n1
                       k == (p - 1) % n2
                   IN  t.data[((i % d0) * d1 + (j % d1)) * d2 + (k % d2) + 1]])

\* lines 107, 358: mask.squeeze()
Squeezed(m) == Squeeze(m)

\* lines 109, 360: mask.shape[0], mask.shape[1] of the squeezed mask raise
\* IndexError when it has fewer than two dimensions
LayoutRaisesIndexError(m) == Len(Squeezed(m).shape) < 2

\* lines 104-112, 355-363: the value layout_attention_mask returns
LayoutAttentionMask(m, H) ==
    LET sq == Squeezed(m)
        rs == Reshape(sq, <<sq.shape[1], 1, sq.shape[2]>>)
    IN  Repeat(rs, H, rs.shape[3], 1)

RunnerIdle ==
    /\ ops = <<>>
    /\ only_run = None
    /\ it = 0
    /\ funcs = <<>>
    /\ selected = 0
    /\ total = 0
    /\ n_func = 0
    /\ idx = 0
    /\ pc = "off"
    /\ err = NoFault
    /\ trace = <<>>
    /\ exit_status = -1

\* lines 145, 400: forward() is about to call layout_attention_mask with a
\* mask of shape (B, 1, 1, S); 0 = attend, 1 = masked
InitLayout ==
    /\ \E B \in 1..MaxBatch, S \in 1..MaxSeq :
          \E d \in [1..(B * S) -> {0, 1}] : mask = Tensor(<<B, 1, 1, S>>, d)
    /\ num_heads \in 1..MaxHeads
    /\ result = Tensor(<<>>, <<>>)
    /\ lpc = "call"
    /\ RunnerIdle

\* lines 107-112: the call returns the laid-out mask
LayoutReturns ==
    /\ lpc = "call"
    /\ ~LayoutRaisesIndexError(mask)
    /\ result' = LayoutAttentionMask(mask, num_heads)
    /\ lpc' = "returned"
    /\ UNCHANGED <<mask, num_heads>>
    /\ UNCHANGED runnerVars

\* line 109: the call raises IndexError
LayoutRaises ==
    /\ lpc = "call"
    /\ LayoutRaisesIndexError(mask)
    /\ lpc' = "IndexError"
    /\ UNCHANGED <<mask, num_heads, result>>
    /\ UNCHANGED runnerVars

NextLayout ==
    \/ LayoutReturns
    \/ LayoutRaises

SpecLayout == InitLayout /\ [][NextLayout]_vars

----------------------------------------------------------------------------
(* Properties of layout_attention_mask *)

(* C10: for every mask of shape (B, 1, 1, S) with B >= 1, S >= 1 and every  *)
(* H >= 1 the call returns, without raising, a mask of shape                *)
(* (B x H, S, S).                                                           *)
C10_LayoutShape ==
    lpc # "call" =>
        /\ lpc = "returned"
        /\ result.shape = <<mask.shape[1] * num_heads, mask.shape[4],
                            mask.shape[4]>>

----------------------------------------------------------------------------
(* The flattening of pt_attention and the rows of the laid-out mask *)

\* lines 98-102, 128-131: a layer of shape (B, S, H, D) as reshape_for_scores
\* yields it, each element labelled with its batch index (0-based)
BatchLabels(B, S, H, D) ==
    Tensor(<<B, S, H, D>>,
           [p \in 1..(B * S * H * D) |-> (p - 1) \div (S * H * D)])

\* line 39: t.permute((0, 2, 1, 3)), out[b, h, s, d] = t[b, s, h, d]
Permute0213(t) ==
    LET B == t.shape[1]
        S == t.shape[2]
        H == t.shape[3]
        D == t.shape[4]
    IN  Tensor(<<B, H, S, D>>,
               [p \in 1..(B * H * S * D) |->
                   LET b == (p - 1) \div (H * S * D)
                       h == ((p - 1) \div (S * D)) % H
                       q == ((p - 1) \div D) % S
                       d == (p - 1) % D
                   IN  t.data[((b * S + q) * H + h) * D + d + 1]])

\* lines 38-39: T(t), (B, S, H, D) -> (B * H, S, D)
T(t) ==
    Reshape(Permute0213(t),
            <<t.shape[1] * t.shape[3], t.shape[2], t.shape[4]>>)

\* the batch element whose queries sit in row r (0-based) of T(query_layer)
BatchOfRow(r, B, S, H) ==
    LET tq == T(BatchLabels(B, S, H, 1)) IN tq.data[r * S + 1]

\* line 30: baddbmm(attn_bias, q, k^T) adds attn_bias[r, i, j] to the score
\* of query i and key j of row r (all 0-based)
BiasAt(bias, r, i, j) ==
    bias.data[(r * bias.shape[2] + i) * bias.shape[3] + j + 1]

\* mask[b, 0, 0, j] of the mask forward() receives (0-based)
MaskAt(m, b, j) == m.data[b * m.shape[4] + j + 1]

(* C11: for every batch index b, head h and key position j, row b*H + h of  *)
(* the laid-out mask, the row the flattening of pt_attention uses for       *)
(* (b, h), carries mask[b, 0, 0, j] in every query row: no batch element is *)
(* masked with another batch element's mask.                                *)
C11_MaskAlignment ==
    lpc = "returned" =>
        LET B == mask.shape[1]
            S == mask.shape[4]
            H == num_heads
        IN  \A b \in 0..(B - 1), h \in 0..(H - 1) :
               /\ BatchOfRow(b * H + h, B, S, H) = b
               /\ \A i, j \in 0..(S - 1) :
                     BiasAt(result, b * H + h, i, j) = MaskAt(mask, b, j)

====
